---------------------------- MODULE Spec2Model ----------------------------
(***************************************************************************)
(* A model of the Waypoint index engine of src/main.ts: the table          *)
(* renderer, the index updater, the folder-note resolver, the upward       *)
(* propagation and the debounced change coalescer.                         *)
(*                                                                         *)
(* JavaScript strings are modelled as sequences of tokens: a path          *)
(* "A/B/B.md" is <<"A", "/", "B", ".md">>, a line of a note is a sequence  *)
(* of tokens in which " " is white space and ">" the callout marker, and a *)
(* note's text is the sequence of its lines (text.split("\n")).            *)
(***************************************************************************)
EXTENDS Integers, Sequences, FiniteSets, Bags, TLC

VARIABLES
    settings,            \* this.settings (WaypointSettings)
    children,            \* the vault: folder -> its children array, in order
    ctime,               \* file -> stat.ctime
    text,                \* note -> the lines of its content
    foldersWithChanges,  \* this.foldersWithChanges
    timer,               \* the debouncer of scheduleUpdate: ms left, -1 when idle
    tasks,               \* the async executions in flight, each at an await
    renderOut,           \* the last value returned by getFileTreeRepresentation
    updLog,              \* the updateWaypoint runs of SpecUpdate, in order
    editLog,             \* the edits made in the settings tab, in order
    lastEvent,           \* history: the latest vault event
    nEvents,             \* history: the number of vault events so far
    uwCalled,            \* history: updateWaypoint calls since the last tree event
    sinceCall,           \* history: ms since the last scheduleUpdate call (-1: none)
    sinceEvent,          \* history: ms since the last create/delete/rename (-1: none)
    burstCalls,          \* history: scheduleUpdate calls of the current burst
    callBurstRuns,       \* history: passes run for the current burst of calls
    eventBurstRuns,      \* history: passes run for the current burst of events
    accumulated,         \* history: folders the handlers added since the last pass
    passLog,             \* history: the last updateChangedFolders execution
    writes,              \* history: vault.modify calls per note since the latest event
    textAtEvent          \* history: the notes as the latest event left them

vaultVars == <<children, ctime, text>>
engineVars == <<foldersWithChanges, timer, tasks>>
checkVars == <<renderOut, updLog, editLog>>
writeVars == <<writes, textAtEvent>>
histVars == <<lastEvent, nEvents, uwCalled, sinceCall, sinceEvent, burstCalls,
              callBurstRuns,
              eventBurstRuns, accumulated, passLog, writes, textAtEvent>>
vars == <<settings, vaultVars, engineVars, checkVars, histVars>>

----------------------------------------------------------------------------
(* Bounds of the model                                                     *)

MaxKids == 3             \* children of the rendered folder
MaxCtime == 2            \* creation timestamps range over 0..MaxCtime
MaxLines == 3            \* lines of a note before the first update
MaxRuns == 3             \* successive updateWaypoint runs on one note
MaxEvents == 2           \* vault events (create, delete, rename, modify)
MaxEdits == 2            \* edits in the settings tab
MaxWrites == 2           \* vault.modify calls on one note that follow one event
TickMs == 250            \* the step in which time advances

----------------------------------------------------------------------------
(* Strings                                                                 *)

Range(s) == {s[i] : i \in 1..Len(s)}

\* A name as a string: the empty name contributes nothing to a concatenation.
Str(tok) == IF tok = "" THEN <<>> ELSE <<tok>>

RECURSIVE TrimLeft(_)
TrimLeft(s) == IF s # <<>> /\ Head(s) = " " THEN TrimLeft(Tail(s)) ELSE s

RECURSIVE TrimRight(_)
TrimRight(s) ==
    IF s # <<>> /\ s[Len(s)] = " " THEN TrimRight(SubSeq(s, 1, Len(s) - 1)) ELSE s

\* String.prototype.trim
Trim(s) == TrimRight(TrimLeft(s))

\* String.prototype.includes
Includes(s, sub) ==
    \E i \in 0..(Len(s) - Len(sub)) : SubSeq(s, i + 1, i + Len(sub)) = sub

\* String.prototype.startsWith
StartsWith(s, pre) == Len(s) >= Len(pre) /\ SubSeq(s, 1, Len(pre)) = pre

\* String.prototype.replaceAll(" ", "%20")
ReplaceSpaces(s) == [i \in 1..Len(s) |-> IF s[i] = " " THEN "%20" ELSE s[i]]

----------------------------------------------------------------------------
(* The plugin's literals                                                   *)

BEGIN_WAYPOINT == "%% Begin Waypoint %%"
END_WAYPOINT == "%% End Waypoint %%"
BEGIN_LANDMARK == "%% Begin Landmark %%"
END_LANDMARK == "%% End Landmark %%"

WaypointType == {"waypoint", "landmark"}
InsideFolder == "INSIDE_FOLDER"
OutsideFolder == "OUTSIDE_FOLDER"

DEFAULT_SETTINGS ==
    [waypointFlag |-> "%% Waypoint %%",
     landmarkFlag |-> "%% Landmark %%",
     stopScanAtFolderNotes |-> FALSE,
     showFolderNotes |-> FALSE,
     useWikiLinks |-> TRUE,
     folderNoteType |-> InsideFolder,
     folderNoteName |-> "",
     ignorePaths |-> << <<"_attachments">> >>]

----------------------------------------------------------------------------
(* The vault: nodes are identified by their path                           *)

Null == <<>>
Root == <<"/">>
FA == <<"A">>
FB == <<"A", "/", "B">>
FC == <<"A", "/", "B", "/", "C">>
FAtt == <<"A", "/", "_attachments">>
NoteA == <<"A", "/", "A", ".md">>
NoteB == <<"A", "/", "B", "/", "B", ".md">>
NoteC == <<"A", "/", "B", "/", "C", "/", "C", ".md">>
IndexA == <<"A", "/", "index", ".md">>
IndexRoot == <<"index", ".md">>
LeafC == <<"A", "/", "B", "/", "C", "/", "x", ".md">>
LeafA == <<"A", "/", "x", ".md">>
LeafA2 == <<"A", "/", "y", ".md">>

AllFolders == {Root, FA, FB, FC, FAtt}
AllFiles == {NoteA, NoteB, NoteC, IndexA, IndexRoot, LeafC, LeafA, LeafA2}
AllNodes == AllFolders \cup AllFiles

Extensions == {".md", ".png"}

\* node instanceof TFile / TFolder
IsFile(n) == n \in AllFiles
IsFolder(n) == n \in AllFolders

\* TFile.basename, TFile.extension, TAbstractFile.name
Basename(f) == f[Len(f) - 1]
Extension(f) == f[Len(f)]
FolderName(d) == IF d = Root THEN "" ELSE d[Len(d)]
NameStr(n) == IF IsFile(n) THEN <<Basename(n), Extension(n)>> ELSE Str(FolderName(n))

\* TAbstractFile.parent (null for the vault root)
Parent(n) ==
    IF n = Root \/ n = Null THEN Null
    ELSE LET k == IF IsFile(n) THEN Len(n) - 2 ELSE Len(n) - 1
         IN  IF k = 0 THEN Root ELSE SubSeq(n, 1, k - 1)

\* TFolder.isRoot
IsRoot(d) == d = Root

Exists(n) ==
    IF n = Root THEN TRUE
    ELSE n \in AllNodes /\ n \in Range(children[Parent(n)])

\* Vault.getAbstractFileByPath
GetAbstractFileByPath(p) == IF p \in AllNodes /\ Exists(p) THEN p ELSE Null


----------------------------------------------------------------------------
(* Folder-note resolver                                                    *)

\* getCleanParentPath
GetCleanParentPath(n) ==
    IF IsFolder(Parent(n)) /\ IsRoot(Parent(n)) THEN <<>> ELSE Parent(n) \o <<"/">>

\* isFolderNote
IsFolderNote(file) ==
    IF settings.folderNoteType = InsideFolder
    THEN IF settings.folderNoteName = ""
         THEN Basename(file) = FolderName(Parent(file))
         ELSE Basename(file) = settings.folderNoteName
    ELSE IF Parent(file) # Null
         THEN IsFolder(GetAbstractFileByPath(
                  GetCleanParentPath(file) \o <<Basename(file)>>))
         ELSE FALSE

----------------------------------------------------------------------------
(* Ignore filter                                                           *)

\* new RegExp(p) throws a SyntaxError on an unbalanced "["
RegexValid(p) == "[" \notin Range(p)

\* path.match(regex) for a literal pattern: the pattern occurs in the path
RegexMatch(p, path) == Includes(path, p)

RECURSIVE IgnoreScan(_, _, _)
IgnoreScan(pats, path, found) ==
    IF pats = <<>> THEN (IF found THEN "true" ELSE "false")
    ELSE LET comparePath == Head(pats)
         IN  IF comparePath = <<>> THEN IgnoreScan(Tail(pats), path, found)
             ELSE IF ~RegexValid(comparePath) THEN "throw"
             ELSE IgnoreScan(Tail(pats), path,
                             found \/ RegexMatch(comparePath, path))

RECURSIVE IgnoreScanNoEmptyCheck(_, _, _)
IgnoreScanNoEmptyCheck(pats, path, found) ==
    IF pats = <<>> THEN (IF found THEN "true" ELSE "false")
    ELSE LET comparePath == Head(pats)
         IN  IF ~RegexValid(comparePath) THEN "throw"
             ELSE IgnoreScanNoEmptyCheck(Tail(pats), path,
                             found \/ RegexMatch(comparePath, path))

\* ignorePath without the test that skips empty patterns
IgnorePathNoEmptyCheck(path) ==
    IgnoreScanNoEmptyCheck(settings.ignorePaths, path, FALSE)

\* ignorePath: "true", "false", or "throw" when a pattern does not compile
IgnorePath(path) == IgnoreScan(settings.ignorePaths, path, FALSE)

----------------------------------------------------------------------------
(* Table renderer                                                          *)

\* !x.stat?.ctime is false: the node is a file whose ctime is not 0
HasCtime(n) == IsFile(n) /\ ctime[n] # 0

\* the comparator with the operands of the subtraction exchanged
SortCompareAscending(a, b) ==
    IF ~HasCtime(a) THEN -1
    ELSE IF ~HasCtime(b) THEN 1
    ELSE ctime[a] - ctime[b]

\* the comparator handed to children.sort
SortCompare(a, b) ==
    IF ~HasCtime(a) THEN -1
    ELSE IF ~HasCtime(b) THEN 1
    ELSE ctime[b] - ctime[a]

\* Array.prototype.sort on a short array: binary insertion
RECURSIVE InsertionPoint(_, _, _, _)
InsertionPoint(sorted, x, left, right) ==
    IF left >= right THEN left
    ELSE LET mid == left + ((right - left) \div 2)
         IN  IF SortCompare(x, sorted[mid + 1]) < 0
             THEN InsertionPoint(sorted, x, left, mid)
             ELSE InsertionPoint(sorted, x, mid + 1, right)

RECURSIVE SortInto(_, _)
SortInto(sorted, rest) ==
    IF rest = <<>> THEN sorted
    ELSE LET x == Head(rest)
             at == InsertionPoint(sorted, x, 0, Len(sorted))
         IN  SortInto(SubSeq(sorted, 1, at) \o <<x>>
                        \o SubSeq(sorted, at + 1, Len(sorted)),
                      Tail(rest))

SortChildren(kids) == SortInto(<<>>, kids)

\* the filter loop that never consults ignorePath
RECURSIVE FilterChildrenNoIgnore(_)
FilterChildrenNoIgnore(kids) ==
    IF kids = <<>> THEN <<>>
    ELSE LET child == Head(kids)
         IN  IF IsFile(child) /\ IsFolderNote(child) /\ ~settings.showFolderNotes
             THEN FilterChildrenNoIgnore(Tail(kids))
             ELSE <<child>> \o FilterChildrenNoIgnore(Tail(kids))

\* the filter loop: ignored children and hidden folder notes are skipped
RECURSIVE FilterChildren(_)
FilterChildren(kids) ==
    IF kids = <<>> THEN <<>>
    ELSE LET child == Head(kids)
         IN  IF IgnorePath(child) = "true" THEN FilterChildren(Tail(kids))
             ELSE IF IsFile(child) /\ IsFolderNote(child)
                     /\ ~settings.showFolderNotes
             THEN FilterChildren(Tail(kids))
             ELSE <<child>> \o FilterChildren(Tail(kids))

\* `${date.getFullYear()}-...` of new Date(ctime): one token per timestamp
DateStr(t) == <<"date", ToString(t)>>

\* the path a folder row links to: its prospective folder note
FolderNotePathOf(child) ==
    child \o <<"/">>
          \o (IF settings.folderNoteName = "" THEN Str(FolderName(child))
              ELSE <<settings.folderNoteName>>)
          \o <<".md">>

\* one table row: the TITLE cell, the DATE cell, the closing "|"
TableRow(child) ==
    LET title ==
            IF IsFile(child)
            THEN LET name == IF Extension(child) = ".md" THEN <<Basename(child)>>
                             ELSE NameStr(child)
                 IN  IF settings.useWikiLinks
                     THEN <<"|[[">> \o child \o <<"\\|">> \o name \o <<"]]">>
                     ELSE <<"|[">> \o name \o <<"](">> \o ReplaceSpaces(child)
                                   \o <<")">>
            ELSE IF settings.useWikiLinks
                 THEN <<"|[[">> \o FolderNotePathOf(child) \o <<"\\|">>
                                \o NameStr(child) \o <<"]]">>
                 ELSE <<"|[">> \o NameStr(child) \o <<"](">>
                               \o ReplaceSpaces(FolderNotePathOf(child)) \o <<")">>
         date == IF IsFile(child) THEN <<"|">> \o DateStr(ctime[child]) ELSE <<"|">>
    IN  title \o date \o <<"|">>

\* the line with the "new file" and "new folder" links
NavLines(node) ==
    IF settings.folderNoteType = InsideFolder
    THEN IF settings.useWikiLinks
         THEN << <<"[[">> \o node \o <<"/new file.md\\|new file]] | [[">> \o node
                          \o <<"/new folder/new folder.md\\|new folder]]">>, <<>> >>
         ELSE << <<"[new file](">> \o node \o <<"/new file.md) | [new folder](">>
                          \o node \o <<"/new folder/README.md)">>, <<>> >>
    ELSE IF Parent(node) # Null
         THEN << <<"[[">> \o node \o <<"/new file.md\\|new file]]">>, <<>> >>
         ELSE <<>>

\* getFileTreeRepresentation(rootNode, node, 0, true): the lines of the
\* returned string (the last one is the empty line after the final "\n"),
\* null for an ignored node, or the error thrown by ignorePath; the array
\* is sorted once, in place, before the filter loop reads it
GetFileTreeRepresentation(rootNode, node) ==
    IF IgnorePath(node) = "throw" THEN [kind |-> "throw", lines |-> <<>>]
    ELSE IF IgnorePath(node) = "true" THEN [kind |-> "null", lines |-> <<>>]
    ELSE LET Table(kids) ==
                 [kind |-> "text",
                  lines |-> << <<"# ">> \o Str(FolderName(rootNode)) >>
                            \o NavLines(node)
                            \o << <<"|TITLE|DATE|">>, <<"|---|---|">> >>
                            \o [i \in 1..Len(kids) |-> TableRow(kids[i])]
                            \o << <<>> >>]
         IN  CHOOSE tree \in
                 {Table(kids) : kids \in
                     {FilterChildren(sorted) :
                          sorted \in {SortChildren(children[node])}}} : TRUE

----------------------------------------------------------------------------
(* Index updater                                                           *)

\* getWaypointBounds
GetWaypointBounds(flagType) ==
    IF flagType = "waypoint" THEN <<BEGIN_WAYPOINT, END_WAYPOINT>>
    ELSE <<BEGIN_LANDMARK, END_LANDMARK>>

\* getWaypointFlag
GetWaypointFlag(flagType) ==
    IF flagType = "waypoint" THEN settings.waypointFlag ELSE settings.landmarkFlag

\* the lines of `${beginWaypoint}\n${fileTree}\n\n${endWaypoint}`
WaypointBlock(flagType, tree) ==
    << <<GetWaypointBounds(flagType)[1]>> >>
      \o (IF tree.kind = "text" THEN tree.lines ELSE << <<tree.kind>> >>)
      \o << <<>>, <<GetWaypointBounds(flagType)[2]>> >>

\* the scan for the bounds of the block; 0 stands for the code's -1
RECURSIVE ScanBounds(_, _, _, _, _)
ScanBounds(lines, flagType, i, start, found) ==
    IF i > Len(lines) THEN found
    ELSE LET trimmed == Trim(lines[i])
         IN  IF start = 0 /\ (\/ Includes(trimmed, <<GetWaypointFlag(flagType)>>)
                              \/ Includes(trimmed, <<GetWaypointBounds(flagType)[1]>>))
             THEN ScanBounds(lines, flagType, i + 1, i,
                     [waypointStart |-> i, waypointEnd |-> 0,
                      isCallout |-> StartsWith(trimmed, <<">">>),
                      initialWaypoint |->
                          Includes(trimmed, <<GetWaypointFlag(flagType)>>)])
             ELSE IF start # 0 /\ trimmed = <<GetWaypointBounds(flagType)[2]>>
             THEN [found EXCEPT !.waypointEnd = i]
             ELSE ScanBounds(lines, flagType, i + 1, start, found)

NoBounds ==
    [waypointStart |-> 0, waypointEnd |-> 0, isCallout |-> FALSE,
     initialWaypoint |-> FALSE]

FindBounds(lines, flagType) == ScanBounds(lines, flagType, 1, 0, NoBounds)

\* a callout block whose blank lines are left without ">"
SplicedBlockBlankBare(flagType, tree, b) ==
    IF b.isCallout
    THEN LET labelled ==
                 IF b.initialWaypoint
                 THEN << <<IF flagType = "landmark" THEN "[!landmark]"
                           ELSE "[!waypoint]">> >> \o WaypointBlock(flagType, tree)
                 ELSE WaypointBlock(flagType, tree)
         IN  [i \in 1..Len(labelled) |->
                 IF labelled[i] = <<>> THEN <<>> ELSE <<">">> \o labelled[i]]
    ELSE WaypointBlock(flagType, tree)

\* the block as it is spliced in: inside a callout every line gets ">", and
\* on first generation the type label comes first
SplicedBlock(flagType, tree, b) ==
    IF b.isCallout
    THEN LET labelled ==
                 IF b.initialWaypoint
                 THEN << <<IF flagType = "landmark" THEN "[!landmark]"
                           ELSE "[!waypoint]">> >> \o WaypointBlock(flagType, tree)
                 ELSE WaypointBlock(flagType, tree)
         IN  [i \in 1..Len(labelled) |-> <<">">> \o labelled[i]]
    ELSE WaypointBlock(flagType, tree)

\* an update that appends the block to a note in which no start line is found
UpdatedTextAppend(lines, flagType, tree) ==
    LET b == FindBounds(lines, flagType)
    IN  [write |-> TRUE,
         lines |-> IF b.waypointStart = 0
                   THEN lines \o SplicedBlock(flagType, tree, b)
                   ELSE SubSeq(lines, 1, b.waypointStart - 1)
                        \o SplicedBlock(flagType, tree, b)
                        \o SubSeq(lines,
                                  (IF b.waypointEnd # 0 THEN b.waypointEnd
                                   ELSE b.waypointStart) + 1,
                                  Len(lines))]

\* a splice whose delete count lacks the "+ 1": the located end line stays
UpdatedTextKeepEnd(lines, flagType, tree) ==
    LET b == FindBounds(lines, flagType)
    IN  IF b.waypointStart = 0 THEN [write |-> FALSE, lines |-> lines]
        ELSE [write |-> TRUE,
              lines |-> SubSeq(lines, 1, b.waypointStart - 1)
                        \o SplicedBlock(flagType, tree, b)
                        \o SubSeq(lines,
                                  IF b.waypointEnd # 0 THEN b.waypointEnd
                                  ELSE b.waypointStart + 1,
                                  Len(lines))]

\* updateWaypoint from the read of the note on: the text handed to
\* vault.modify, or no write when no start line is found
UpdatedText(lines, flagType, tree) ==
    LET b == FindBounds(lines, flagType)
    IN  IF b.waypointStart = 0 THEN [write |-> FALSE, lines |-> lines]
        ELSE [write |-> TRUE,
              lines |-> SubSeq(lines, 1, b.waypointStart - 1)
                        \o SplicedBlock(flagType, tree, b)
                        \o SubSeq(lines,
                                  (IF b.waypointEnd # 0 THEN b.waypointEnd
                                   ELSE b.waypointStart) + 1,
                                  Len(lines))]

\* the file tree updateWaypoint renders for a note (Inside mode: the note's
\* folder; Outside mode: the sibling folder, undefined when there is none)
FileTreeFor(file) ==
    IF settings.folderNoteType = InsideFolder
    THEN GetFileTreeRepresentation(Parent(file), Parent(file))
    ELSE LET folder == GetAbstractFileByPath(
                           GetCleanParentPath(file) \o <<Basename(file)>>)
         IN  IF IsFolder(folder)
             THEN GetFileTreeRepresentation(Parent(file), folder)
             ELSE [kind |-> "undefined", lines |-> <<>>]

----------------------------------------------------------------------------
(* The state of the plugin after onload, before any vault event            *)

QuietPeriod == 500

NoEvent == [kind |-> "none", file |-> Null, parents |-> {}, inFlight |-> FALSE]

NoWrites == [f \in AllFiles |-> 0]

NoPass == [ran |-> FALSE, accumulated |-> {}, calls |-> EmptyBag, leftover |-> {},
           quiet |-> 0]

EngineIdle ==
    /\ editLog = <<>>
    /\ foldersWithChanges = {}
    /\ timer = -1
    /\ tasks = EmptyBag
    /\ lastEvent = NoEvent
    /\ nEvents = 0
    /\ uwCalled = {}
    /\ sinceCall = -1
    /\ sinceEvent = -1
    /\ burstCalls = 0
    /\ callBurstRuns = 0
    /\ eventBurstRuns = 0
    /\ accumulated = {}
    /\ passLog = NoPass
    /\ writes = NoWrites
    /\ textAtEvent = text

----------------------------------------------------------------------------
(* SpecRender: the table renderer applied to folder A of a vault whose     *)
(* content, timestamps and settings are drawn from bounded sets            *)

NoRender == [kind |-> "none", lines |-> <<>>]

RenderCandidates == {NoteA, LeafA, LeafA2, FB, FAtt}

\* the orders in which up to MaxKids children can sit in TFolder.children
KidOrders ==
    {s \in UNION {[1..n -> RenderCandidates] : n \in 0..MaxKids} :
        \A i, j \in 1..Len(s) : i # j => s[i] # s[j]}

\* values of the "Ignored Files/Folders" setting: the default, a pattern
\* after an empty line, and lists with a pattern that does not compile
IgnoreChoices ==
    { << <<"_attachments">> >>,
      << <<>>, <<"x">> >>,
      << <<"x">>, <<"[">> >>,
      << <<"[">>, <<"_attachments">> >> }

RenderSettings ==
    {[DEFAULT_SETTINGS EXCEPT !.folderNoteName = n, !.showFolderNotes = s,
                              !.useWikiLinks = w, !.ignorePaths = ip] :
        n \in {"", "index"}, s \in BOOLEAN, w \in BOOLEAN, ip \in IgnoreChoices}

RenderInit ==
    /\ settings \in RenderSettings
    /\ \E kids \in KidOrders :
          /\ children = [d \in AllFolders |->
                            IF d = Root THEN <<FA>> ELSE IF d = FA THEN kids ELSE <<>>]
          /\ \E c \in [Range(kids) \cap AllFiles -> 0..MaxCtime] :
                ctime = [f \in AllFiles |-> IF f \in DOMAIN c THEN c[f] ELSE 0]
    /\ text = [f \in AllFiles |-> <<>>]
    /\ renderOut = NoRender
    /\ updLog = <<>>
    /\ EngineIdle

\* getFileTreeRepresentation(file.parent, file.parent, 0, true)
Render ==
    /\ renderOut = NoRender
    /\ renderOut' = GetFileTreeRepresentation(FA, FA)
    /\ UNCHANGED <<settings, vaultVars, engineVars, updLog, editLog, histVars>>

RenderNext == Render

SpecRender == RenderInit /\ [][RenderNext]_vars

----------------------------------------------------------------------------
(* Reading a rendered table                                                *)

\* a table row starts with its link cell
IsRow(line) == line # <<>> /\ Head(line) \in {"|[[", "|["}

\* the row links to this child
RowShows(line, child) == IsRow(line) /\ Includes(line, child)

RenderedRows == SelectSeq(renderOut.lines, IsRow)

RowChild(line) == CHOOSE c \in Range(children[FA]) : RowShows(line, c)

MatchesNonEmptyPattern(path) ==
    \E i \in 1..Len(settings.ignorePaths) :
        /\ settings.ignorePaths[i] # <<>>
        /\ RegexMatch(settings.ignorePaths[i], path)

HasMalformedPattern ==
    \E i \in 1..Len(settings.ignorePaths) : ~RegexValid(settings.ignorePaths[i])

\* C7: a child whose path matches a non-empty ignore pattern is never a row
\* of the rendered table, whatever the other settings are, and a path is
\* ignored only if some non-empty pattern matches it.
C7_IgnoreSemantics ==
    /\ renderOut.kind = "text" =>
          \A child \in Range(children[FA]) :
              MatchesNonEmptyPattern(child) =>
                  \A i \in 1..Len(renderOut.lines) :
                      ~RowShows(renderOut.lines[i], child)
    /\ \A n \in AllNodes : IgnorePath(n) = "true" => MatchesNonEmptyPattern(n)

C7_Witness ==
    /\ renderOut.kind = "text"
    /\ <<>> \in Range(settings.ignorePaths)
    /\ \E c \in Range(children[FA]) : MatchesNonEmptyPattern(c)
    /\ Len(RenderedRows) >= 1

C9_MalformedPatternTolerated ==
    (renderOut # NoRender /\ HasMalformedPattern) =>
        /\ renderOut.kind # "throw"
        /\ \A n \in AllNodes :
              IgnorePath(n) =
                  (IF \E i \in 1..Len(settings.ignorePaths) :
                          /\ settings.ignorePaths[i] # <<>>
                          /\ RegexValid(settings.ignorePaths[i])
                          /\ RegexMatch(settings.ignorePaths[i], n)
                   THEN "true" ELSE "false")

----------------------------------------------------------------------------
(* SpecUpdate: updateWaypoint run several times in succession on the       *)
(* folder note A/A.md, with no change to the file tree or the settings     *)
(* between the runs; the note's first text is drawn from a bounded set     *)

LineChoices ==
    { <<"prose">>,
      <<DEFAULT_SETTINGS.waypointFlag>>,
      <<">", " ", DEFAULT_SETTINGS.waypointFlag>>,
      <<DEFAULT_SETTINGS.landmarkFlag>>,
      <<BEGIN_WAYPOINT>>,
      <<END_WAYPOINT>> }

NoteTexts == UNION {[1..n -> LineChoices] : n \in 1..MaxLines}

UpdateSettings ==
    {[DEFAULT_SETTINGS EXCEPT !.ignorePaths = ip] :
        ip \in { << <<"_attachments">> >>, << <<"x">>, <<"[">> >>, << <<"A">> >> }}

StaticVault ==
    [d \in AllFolders |->
        IF d = Root THEN <<FA, IndexRoot>>
        ELSE IF d = FA THEN <<NoteA, IndexA, LeafA, FB>>
        ELSE IF d = FB THEN <<NoteB, FC>>
        ELSE IF d = FC THEN <<NoteC, LeafC>>
        ELSE <<>>]

StaticCtime ==
    [f \in AllFiles |-> IF f \in {LeafA, LeafC} THEN 2
                        ELSE IF f \in {LeafA2, IndexA} THEN 0 ELSE 1]

UpdateInit ==
    /\ settings \in UpdateSettings
    /\ children = StaticVault
    /\ ctime = StaticCtime
    /\ \E t \in NoteTexts : text = [f \in AllFiles |-> IF f = NoteA THEN t ELSE <<>>]
    /\ renderOut = NoRender
    /\ updLog = <<>>
    /\ EngineIdle

\* updateWaypoint(A/A.md, flagType), from the call to the return of
\* vault.modify; a render that throws ends the run before the note is read
RunUpdate(flagType) ==
    /\ Len(updLog) < MaxRuns
    /\ LET tree == FileTreeFor(NoteA)
           res == UpdatedText(text[NoteA], flagType, tree)
       IN  IF tree.kind = "throw"
           THEN /\ updLog' = Append(updLog,
                        [flagType |-> flagType, before |-> text[NoteA],
                         after |-> text[NoteA], threw |-> TRUE, wrote |-> FALSE])
                /\ UNCHANGED text
           ELSE /\ updLog' = Append(updLog,
                        [flagType |-> flagType, before |-> text[NoteA],
                         after |-> res.lines, threw |-> FALSE, wrote |-> res.write])
                /\ text' = [text EXCEPT ![NoteA] = res.lines]
    /\ UNCHANGED <<settings, children, ctime, renderOut, editLog, engineVars,
                   histVars>>

UpdateNext == \E flagType \in WaypointType : RunUpdate(flagType)

SpecUpdate == UpdateInit /\ [][UpdateNext]_vars

----------------------------------------------------------------------------
(* Reading a note                                                          *)

\* the lines of a text that hold the given literal
LinesWith(lines, literal) ==
    {i \in 1..Len(lines) : Includes(Trim(lines[i]), <<literal>>)}

\* a begin delimiter line of the kind with an end delimiter line after it,
\* both plain or both behind the ">" of a callout
HoldsBlock(lines, flagType) ==
    \E b \in LinesWith(lines, GetWaypointBounds(flagType)[1]) :
        \E e \in LinesWith(lines, GetWaypointBounds(flagType)[2]) :
            /\ b < e
            /\ StartsWith(Trim(lines[b]), <<">">>) = StartsWith(Trim(lines[e]), <<">">>)

\* C1: when a note holds an index block of kind K (plain or in a callout)
\* and no raw trigger flag of that kind, two successive updateWaypoint(note, K)
\* runs leave the same text: the text after the second run equals the text
\* after the first.
C1_Idempotence ==
    \A k \in 2..Len(updLog) :
        (/\ updLog[k].flagType = updLog[k - 1].flagType
         /\ HoldsBlock(updLog[k - 1].before, updLog[k].flagType)
         /\ LinesWith(updLog[k - 1].before, GetWaypointFlag(updLog[k].flagType)) = {})
            => updLog[k].after = updLog[k - 1].after

\* C2: a note that consists only of the trigger flag line of kind K holds,
\* after one updateWaypoint(note, K), exactly one begin delimiter line and
\* exactly one end delimiter line of kind K, the begin line first, and no
\* line with the raw trigger flag.
C2_RoundTrip ==
    \A k \in 1..Len(updLog) :
        LET r == updLog[k]
            begins == LinesWith(r.after, GetWaypointBounds(r.flagType)[1])
            ends == LinesWith(r.after, GetWaypointBounds(r.flagType)[2])
        IN  (/\ Len(r.before) = 1
             /\ Includes(Trim(r.before[1]), <<GetWaypointFlag(r.flagType)>>))
                => /\ Cardinality(begins) = 1
                   /\ Cardinality(ends) = 1
                   /\ \A b \in begins : \A e \in ends : b < e
                   /\ LinesWith(r.after, GetWaypointFlag(r.flagType)) = {}

----------------------------------------------------------------------------
(* Spec: the plugin driven by vault events.  An async function is a task   *)
(* that moves from one await to the next; tasks interleave freely.  File   *)
(* I/O is short against the quiet period and against the pace of the       *)
(* user: time advances, and the next vault event of the user arrives, when *)
(* the reads and writes in flight have completed.                          *)

NoData == <<>>

Task(op, file, flagType, pc, tree, data, cont) ==
    [op |-> op, file |-> file, flagType |-> flagType, pc |-> pc,
     tree |-> tree, data |-> data, cont |-> cont]

\* the "modify" handler: detectFlags starts detectFlag for both kinds back to
\* back, so their cachedRead calls of the one file resolve together
DetectFlags(file) ==
    SetToBag({Task("detectFlags", file, "none", "read", NoRender, NoData, "none")})

\* the folder note locateParentPoint looks up for a folder
LocateFolderNote(folder) ==
    IF settings.folderNoteType = InsideFolder
    THEN GetAbstractFileByPath(folder \o <<"/">> \o Str(FolderName(folder)) \o <<".md">>)
    ELSE IF Parent(folder) # Null
         THEN GetAbstractFileByPath(
                  GetCleanParentPath(folder) \o Str(FolderName(folder)) \o <<".md">>)
         ELSE Null

\* the marker test of locateParentPoint on a folder note's text
MarkerKind(lines) ==
    IF \/ LinesWith(lines, BEGIN_WAYPOINT) # {}
       \/ LinesWith(lines, settings.waypointFlag) # {}
    THEN "waypoint"
    ELSE IF \/ LinesWith(lines, BEGIN_LANDMARK) # {}
            \/ LinesWith(lines, settings.landmarkFlag) # {}
    THEN "landmark"
    ELSE "none"

\* getParentFolder: path.split("/").slice(0, -1).join("/"), then the lookup
GetParentFolder(path) ==
    LET slashes == {i \in 1..Len(path) : path[i] = "/"}
        upTo == IF slashes = {} THEN 0
                ELSE CHOOSE i \in slashes : \A j \in slashes : j <= i
        found == GetAbstractFileByPath(SubSeq(path, 1, upTo - 1))'
    IN  IF IsFolder(found) THEN found ELSE Null

\* the message detectFlag hands to printError
ErrorLine(file, flagType) ==
    IF IsRoot(Parent(file))
    THEN <<"%% Error: Cannot create a ", flagType, " in the root folder of your vault. %%">>
    ELSE <<"%% Error: Cannot create a ", flagType, " in a note that's not the folder note. %%">>

\* a debouncer that keeps a running timer instead of restarting it
ScheduleUpdateNoReset(cur) == IF cur = -1 THEN QuietPeriod ELSE cur

\* debounce(cb, 500, true): every call restarts the quiet period
ScheduleUpdate(cur) == QuietPeriod

Elapse(since) == IF since < 0 THEN since
                 ELSE IF since + TickMs > QuietPeriod THEN QuietPeriod
                 ELSE since + TickMs

\* a handler that puts its folders in place of the pending ones
AddFoldersFresh(pending, added) == added

\* foldersWithChanges.add(folder) for the folders of one handler
AddFolders(pending, added) == pending \cup added

\* bookkeeping shared by the create, delete and rename handlers
TreeEvent(kind, file, parents, added, scheduled) ==
    /\ nEvents < MaxEvents
    /\ timer # 0
    /\ lastEvent' = [kind |-> kind, file |-> file, parents |-> parents,
                     inFlight |-> tasks # EmptyBag]
    /\ nEvents' = nEvents + 1
    /\ uwCalled' = {}
    /\ foldersWithChanges' = AddFolders(foldersWithChanges, added)
    /\ accumulated' = accumulated \cup added
    /\ sinceEvent' = 0
    /\ eventBurstRuns' = IF sinceEvent \in 0..(QuietPeriod - 1) THEN eventBurstRuns ELSE 0
    /\ IF scheduled
       THEN /\ timer' = ScheduleUpdate(timer)
            /\ sinceCall' = 0
            /\ callBurstRuns' = IF sinceCall \in 0..(QuietPeriod - 1)
                                THEN callBurstRuns ELSE 0
            /\ burstCalls' = IF sinceCall \in 0..(QuietPeriod - 1)
                             THEN burstCalls + 1 ELSE 1
       ELSE UNCHANGED <<timer, sinceCall, callBurstRuns, burstCalls>>
    /\ writes' = NoWrites
    /\ textAtEvent' = text'
    /\ UNCHANGED <<settings, tasks, checkVars, passLog>>

Movable == {LeafC, LeafA2}
Removable == {LeafC, IndexRoot}
Modifiable == {LeafC, IndexRoot}

Without(kids, n) == SelectSeq(kids, LAMBDA c : c # n)

\* vault "create" event and its handler
OnCreate(file) ==
    /\ file \in Movable
    /\ ~Exists(file)
    /\ children' = [children EXCEPT ![Parent(file)] = Append(@, file)]
    /\ UNCHANGED <<ctime, text>>
    /\ TreeEvent("create", file, {Parent(file)}, {Parent(file)}, TRUE)

\* vault "delete" event and its handler
OnDelete(file) ==
    /\ file \in Removable
    /\ Exists(file)
    /\ children' = [children EXCEPT ![Parent(file)] = Without(@, file)]
    /\ UNCHANGED <<ctime, text>>
    /\ LET parentFolder == GetParentFolder(file)
       IN  TreeEvent("delete", file, {Parent(file)},
                     IF parentFolder # Null THEN {parentFolder} ELSE {},
                     parentFolder # Null)

\* vault "rename" event and its handler
OnRename(old, file) ==
    /\ old \in Movable /\ file \in Movable /\ old # file
    /\ Exists(old) /\ ~Exists(file)
    /\ children' = [d \in AllFolders |->
           LET kept == Without(children[d], old)
           IN  IF d = Parent(file) THEN Append(kept, file) ELSE kept]
    /\ ctime' = [ctime EXCEPT ![file] = ctime[old]]
    /\ text' = [text EXCEPT ![file] = text[old]]
    /\ LET parentFolder == GetParentFolder(old)
       IN  TreeEvent("rename", file, {Parent(old), Parent(file)},
                     {Parent(file)} \cup
                         (IF parentFolder # Null THEN {parentFolder} ELSE {}),
                     TRUE)

\* what the user saves: a flag of either kind typed into the root note,
\* plain prose in a leaf file
Edits(file) ==
    IF file = IndexRoot THEN {<< <<GetWaypointFlag(k)>> >> : k \in WaypointType}
    ELSE {<< <<"prose">> >>}

\* vault "modify" event raised by the user saving a note
OnModify(file, data) ==
    /\ Exists(file)
    /\ text' = [text EXCEPT ![file] = data]
    /\ nEvents < MaxEvents
    /\ timer # 0
    /\ lastEvent' = [kind |-> "modify", file |-> file, parents |-> {Parent(file)},
                     inFlight |-> tasks # EmptyBag]
    /\ nEvents' = nEvents + 1
    /\ tasks' = tasks (+) DetectFlags(file)
    /\ uwCalled' = {}
    /\ writes' = NoWrites
    /\ textAtEvent' = text'
    /\ UNCHANGED <<settings, children, ctime, foldersWithChanges, timer,
                   checkVars, sinceCall, sinceEvent, burstCalls, callBurstRuns,
                   eventBurstRuns, accumulated, passLog>>

\* time passes; an expired debouncer runs before anything else happens
Tick ==
    /\ timer # 0
    /\ tasks = EmptyBag
    /\ timer > 0 \/ sinceCall \in 0..(QuietPeriod - 1)
                 \/ sinceEvent \in 0..(QuietPeriod - 1)
    /\ timer' = IF timer > TickMs THEN timer - TickMs
                ELSE IF timer > 0 THEN 0 ELSE timer
    /\ sinceCall' = Elapse(sinceCall)
    /\ sinceEvent' = Elapse(sinceEvent)
    /\ UNCHANGED <<settings, vaultVars, foldersWithChanges, tasks, checkVars,
                   lastEvent, nEvents, uwCalled, burstCalls, callBurstRuns,
                   eventBurstRuns, accumulated, passLog, writeVars>>

\* updateChangedFolders, run by the debouncer when the quiet period is over
UpdateChangedFolders ==
    /\ timer = 0
    /\ timer' = -1
    /\ LET calls == SetToBag({Task("updateParentPoint", folder, "none", "locate",
                                   NoRender, NoData, "none") :
                                 folder \in foldersWithChanges})
       IN  /\ tasks' = tasks (+) calls
           /\ foldersWithChanges' = {}
           /\ passLog' = [ran |-> TRUE, accumulated |-> accumulated,
                          calls |-> calls, leftover |-> foldersWithChanges',
                          quiet |-> sinceCall]
    /\ accumulated' = {}
    /\ callBurstRuns' = callBurstRuns + 1
    /\ eventBurstRuns' = eventBurstRuns + 1
    /\ UNCHANGED <<settings, vaultVars, checkVars, lastEvent, nEvents, uwCalled,
                   sinceCall, sinceEvent, burstCalls, writeVars>>

\* the call of updateWaypoint up to its first await: the tree is rendered,
\* and a render that throws rejects the call
CallUpdateWaypoint(file, flagType, cont) ==
    LET tree == FileTreeFor(file)
    IN  IF tree.kind = "throw" THEN EmptyBag
        ELSE SetToBag({Task("updateWaypoint", file, flagType, "read",
                            tree, NoData, cont)})

\* what runs after an awaited updateWaypoint returns: in detectFlag,
\* updateParentPoint(file.parent, false), whose search starts one folder up
Continuation(t) ==
    IF t.cont = "propagate"
    THEN SetToBag({Task("updateParentPoint", Parent(Parent(t.file)), "none",
                        "locate", NoRender, NoData, "none")})
    ELSE EmptyBag

Done(t) == tasks (-) SetToBag({t})

\* detectFlag(file, flagType) after cachedRead resolves: the executions it
\* starts, and whether it calls updateWaypoint
FlagFound(file, flagType) ==
    Exists(file) /\ LinesWith(text[file], GetWaypointFlag(flagType)) # {}

DetectFlag(file, flagType) ==
    IF ~FlagFound(file, flagType) THEN EmptyBag
    ELSE IF IsFolderNote(file)
    THEN CallUpdateWaypoint(file, flagType, "propagate")
    ELSE SetToBag({Task("printError", file, flagType, "read", NoRender,
                        ErrorLine(file, flagType), "none")})

\* both detectFlag executions of one "modify" event, after the read
DetectFlagsRead(t) ==
    /\ t.op = "detectFlags"
    /\ tasks' = Done(t) (+) DetectFlag(t.file, "waypoint")
                        (+) DetectFlag(t.file, "landmark")
    /\ uwCalled' = uwCalled \cup
           {<<t.file, k>> : k \in {j \in WaypointType :
                                     FlagFound(t.file, j) /\ IsFolderNote(t.file)}}
    /\ UNCHANGED <<settings, vaultVars, foldersWithChanges, timer, checkVars,
                   lastEvent, nEvents, sinceCall, sinceEvent, burstCalls,
                   callBurstRuns, eventBurstRuns, accumulated, passLog, writeVars>>

\* updateWaypoint after vault.read resolves: the new text is computed
UpdateWaypointRead(t) ==
    /\ t.op = "updateWaypoint" /\ t.pc = "read"
    /\ LET res == UpdatedText(text[t.file], t.flagType, t.tree)
       IN  tasks' = IF res.write
                    THEN Done(t) (+) SetToBag({[t EXCEPT !.pc = "write",
                                                         !.data = res.lines]})
                    ELSE Done(t) (+) Continuation(t)
    /\ UNCHANGED <<settings, vaultVars, foldersWithChanges, timer, checkVars,
                   histVars>>

\* vault.modify of updateWaypoint or printError completes: the note changes
\* and the vault raises "modify", which the plugin handles with detectFlags
WriteNoteUpTo(t, cap) ==
    /\ t.op \in {"updateWaypoint", "printError"} /\ t.pc = "write"
    /\ text' = [text EXCEPT ![t.file] = t.data]
    /\ tasks' = Done(t) (+) DetectFlags(t.file) (+) Continuation(t)
    /\ writes[t.file] < cap
    /\ writes' = [writes EXCEPT ![t.file] = @ + 1]
    /\ UNCHANGED <<settings, children, ctime, foldersWithChanges, timer,
                   checkVars, lastEvent, nEvents, uwCalled, sinceCall,
                   sinceEvent, burstCalls, callBurstRuns, eventBurstRuns,
                   accumulated, passLog, textAtEvent>>

WriteNote(t) == WriteNoteUpTo(t, MaxWrites)

\* printError after vault.read resolves: the last flag line is replaced
PrintError(t) ==
    /\ t.op = "printError" /\ t.pc = "read"
    /\ LET lines == text[t.file]
           hits == LinesWith(lines, GetWaypointFlag(t.flagType))
           waypointIndex == IF hits = {} THEN 0
                            ELSE CHOOSE i \in hits : \A j \in hits : j <= i
       IN  tasks' = IF waypointIndex = 0 THEN Done(t)
                    ELSE Done(t) (+) SetToBag({[t EXCEPT !.pc = "write",
                             !.data = [lines EXCEPT ![waypointIndex] = t.data]]})
    /\ UNCHANGED <<settings, vaultVars, foldersWithChanges, timer, checkVars,
                   histVars>>

\* a walk that goes on from the folder of the note it has just updated
NextFolderSame(parentPoint) == Parent(parentPoint)

\* updateParentPoint(parentPoint.parent, false): the search goes on from the
\* parent of the folder that holds the note
NextFolder(parentPoint) == Parent(Parent(parentPoint))

\* updateParentPoint: one turn of the loop of locateParentPoint on the
\* folder in t.file; a hit calls updateWaypoint without awaiting it and
\* goes on from the folder above the note's.  t.data is history: the notes
\* the walk has called updateWaypoint on so far.
UpdateParentPoint(t) ==
    /\ t.op = "updateParentPoint"
    /\ LET folder == t.file
           folderNote == IF folder = Null THEN Null ELSE LocateFolderNote(folder)
           kind == IF IsFile(folderNote) THEN MarkerKind(text[folderNote]) ELSE "none"
       IN  IF folder = Null
           THEN /\ tasks' = Done(t)
                /\ UNCHANGED uwCalled
           ELSE IF kind # "none"
           THEN /\ tasks' = Done(t)
                        (+) CallUpdateWaypoint(folderNote, kind, "none")
                        (+) SetToBag({[t EXCEPT !.file = NextFolder(folderNote),
                                                !.data = Append(@, folderNote)]})
                /\ uwCalled' = uwCalled \cup {<<folderNote, kind>>}
           ELSE /\ tasks' = Done(t) (+) SetToBag({[t EXCEPT !.file = Parent(folder)]})
                /\ UNCHANGED uwCalled
    /\ UNCHANGED <<settings, vaultVars, foldersWithChanges, timer, checkVars,
                   lastEvent, nEvents, sinceCall, sinceEvent, burstCalls,
                   callBurstRuns, eventBurstRuns, accumulated, passLog, writeVars>>

StaleBlock == << <<BEGIN_WAYPOINT>>, <<END_WAYPOINT>> >>

StaleLandmark == << <<BEGIN_LANDMARK>>, <<END_LANDMARK>> >>

Init ==
    /\ \E n \in {"", "index"} :
           settings = [DEFAULT_SETTINGS EXCEPT !.folderNoteName = n]
    /\ children = StaticVault
    /\ ctime = StaticCtime
    /\ text = [f \in AllFiles |->
                  IF f \in {NoteA, IndexA} THEN StaleBlock
                  ELSE IF f = NoteB THEN StaleBlock \o StaleLandmark
                  ELSE IF f = NoteC THEN StaleLandmark
                  ELSE << <<"prose">> >>]
    /\ renderOut = NoRender
    /\ updLog = <<>>
    /\ EngineIdle

Next ==
    \/ \E file \in AllFiles : tasks = EmptyBag /\ OnCreate(file)
    \/ \E file \in AllFiles : tasks = EmptyBag /\ OnDelete(file)
    \/ \E old, file \in AllFiles : tasks = EmptyBag /\ OnRename(old, file)
    \/ \E file \in Modifiable : \E data \in Edits(file) :
           tasks = EmptyBag /\ OnModify(file, data)
    \/ Tick
    \/ UpdateChangedFolders
    \/ \E t \in BagToSet(tasks) : DetectFlagsRead(t)
    \/ \E t \in BagToSet(tasks) : UpdateWaypointRead(t)
    \/ \E t \in BagToSet(tasks) : WriteNote(t)
    \/ \E t \in BagToSet(tasks) : PrintError(t)
    \/ \E t \in BagToSet(tasks) : UpdateParentPoint(t)

Spec == Init /\ [][Next]_vars

----------------------------------------------------------------------------
(* Reading the engine's state                                              *)

\* nothing in flight and nothing scheduled
Quiescent == tasks = EmptyBag /\ timer = -1

\* the notes that isFolderNote accepts as the folder note of a folder
FolderNotesOf(folder) ==
    {n \in AllFiles : Exists(n) /\ Parent(n) = folder /\ IsFolderNote(n)}

\* a folder and its ancestors up to the vault root
RECURSIVE Chain(_)
Chain(folder) == IF folder = Null THEN {} ELSE {folder} \cup Chain(Parent(folder))

\* the shape of the engine's state
EngineTypeOK ==
    /\ timer \in {-1} \cup 0..QuietPeriod
    /\ foldersWithChanges \subseteq AllFolders
    /\ IsABag(tasks)
    /\ nEvents <= MaxEvents

\* the kinds for which updateWaypoint was called on a note since the latest event
Updated(n) == \E k \in WaypointType : <<n, k>> \in uwCalled

\* the updateParentPoint(folder, true) calls one pass makes for a set of folders
CallsFor(S) ==
    SetToBag({Task("updateParentPoint", folder, "none", "locate",
                   NoRender, NoData, "none") : folder \in S})

----------------------------------------------------------------------------
(* Claims on the event-driven plugin                                       *)

\* C10: for every folder F and note N of the vault, locateParentPoint takes
\* N for the folder note of F exactly when N lies in F and isFolderNote(N)
\* holds, whether the override name is empty or not.
C10_ResolutionConsistent ==
    \A F \in AllFolders, N \in AllFiles :
        (Exists(F) /\ Exists(N))
            => ((LocateFolderNote(F) = N) <=> (Parent(N) = F /\ IsFolderNote(N)))

\* C3: no generated block is ever written into a note of the vault root, and
\* once the "modify" of a root note has been handled the note holds an error
\* comment in place of the flag line, whether the override name is empty or
\* not.
C3_RootPlacementGuard ==
    \A n \in AllFiles :
        (Parent(n) = Root /\ Exists(n)) =>
            /\ \A k \in WaypointType :
                   LinesWith(text[n], GetWaypointBounds(k)[1]) = {}
            /\ (Quiescent /\ lastEvent.kind = "modify" /\ lastEvent.file = n)
                   => /\ \A k \in WaypointType :
                             LinesWith(text[n], GetWaypointFlag(k)) = {}
                      /\ \E k \in WaypointType, i \in 1..Len(text[n]) :
                             text[n][i] = ErrorLine(n, k)

\* C4: with an index in the folder note of each of the three nested
\* folders, once the "modify" of a flagless leaf file of the innermost folder
\* has been handled, updateWaypoint has been called on all three notes.
C4_ModifyPropagates ==
    (/\ Quiescent
     /\ lastEvent.kind = "modify" /\ lastEvent.file = LeafC
     /\ MarkerKind(text[LeafC]) = "none"
     /\ \A n \in {NoteA, NoteB, NoteC} :
            n \in FolderNotesOf(Parent(n)) /\ MarkerKind(text[n]) # "none")
        => \A n \in {NoteA, NoteB, NoteC} : Updated(n)

\* C5: once a create, delete or rename has been handled, updateWaypoint has
\* been called on the folder note of every folder on the chain of each
\* affected parent (both parents for a rename) whose note holds a marker.
C5_TreeChangePropagates ==
    (Quiescent /\ lastEvent.kind \in {"create", "delete", "rename"})
        => \A F \in lastEvent.parents : \A G \in Chain(F) :
               \A n \in FolderNotesOf(G) :
                   MarkerKind(text[n]) # "none" => Updated(n)

----------------------------------------------------------------------------
(* SpecSettings: the flag fields of the settings tab                       *)

\* the values typed into a flag field
FlagInputs ==
    {"", "hello", "%", "%%", "%%%", "%%%%", "%%%%%", "%%a", "a%%", "%a%%",
     "%%a%%", "%% Waypoint %%", "%% Landmark %%"}

\* the characters of a value (a run of letters and blanks is one element)
Chars(value) ==
    CASE value = "" -> <<>>
      [] value = "hello" -> <<"hello">>
      [] value = "%" -> <<"%">>
      [] value = "%%" -> <<"%", "%">>
      [] value = "%%%" -> <<"%", "%", "%">>
      [] value = "%%%%" -> <<"%", "%", "%", "%">>
      [] value = "%%%%%" -> <<"%", "%", "%", "%", "%">>
      [] value = "%%a" -> <<"%", "%", "a">>
      [] value = "a%%" -> <<"a", "%", "%">>
      [] value = "%a%%" -> <<"%", "a", "%", "%">>
      [] value = "%%a%%" -> <<"%", "%", "a", "%", "%">>
      [] value = "%% Waypoint %%" -> <<"%", "%", " Waypoint ", "%", "%">>
      [] value = "%% Landmark %%" -> <<"%", "%", " Landmark ", "%", "%">>

\* String.endsWith
EndsWith(s, suf) ==
    Len(s) >= Len(suf) /\ SubSeq(s, Len(s) - Len(suf) + 1, Len(s)) = suf

\* a test that lets the bare delimiters through
FlagAcceptedBare(value) ==
    /\ value # ""
    /\ StartsWith(Chars(value), <<"%", "%">>)
    /\ EndsWith(Chars(value), <<"%", "%">>)

\* the test of the onChange callbacks of the two flag fields
FlagAccepted(value) ==
    /\ value # ""
    /\ StartsWith(Chars(value), <<"%", "%">>)
    /\ EndsWith(Chars(value), <<"%", "%">>)
    /\ value # "%%" /\ value # "%%%" /\ value # "%%%%"

SettingsInit ==
    /\ settings = DEFAULT_SETTINGS
    /\ children = StaticVault
    /\ ctime = StaticCtime
    /\ text = [f \in AllFiles |-> <<>>]
    /\ renderOut = NoRender
    /\ updLog = <<>>
    /\ EngineIdle

\* onChange of the "Waypoint Flag" field
SetWaypointFlag(value) ==
    /\ Len(editLog) < MaxEdits
    /\ settings' = [settings EXCEPT !.waypointFlag =
                       IF FlagAccepted(value) THEN value
                       ELSE DEFAULT_SETTINGS.waypointFlag]
    /\ editLog' = Append(editLog, [field |-> "waypointFlag", value |-> value,
                                   stored |-> settings'.waypointFlag])
    /\ UNCHANGED <<vaultVars, engineVars, renderOut, updLog, histVars>>

\* onChange of the "Landmark Flag" field
SetLandmarkFlag(value) ==
    /\ Len(editLog) < MaxEdits
    /\ settings' = [settings EXCEPT !.landmarkFlag =
                       IF FlagAccepted(value) THEN value
                       ELSE DEFAULT_SETTINGS.landmarkFlag]
    /\ editLog' = Append(editLog, [field |-> "landmarkFlag", value |-> value,
                                   stored |-> settings'.landmarkFlag])
    /\ UNCHANGED <<vaultVars, engineVars, renderOut, updLog, histVars>>

SettingsNext ==
    \/ \E value \in FlagInputs : SetWaypointFlag(value)
    \/ \E value \in FlagInputs : SetLandmarkFlag(value)

SpecSettings == SettingsInit /\ [][SettingsNext]_vars

\* a flag that starts and ends with "%%" and is longer than "%%"
WellFormedFlag(value) ==
    /\ StartsWith(Chars(value), <<"%", "%">>)
    /\ EndsWith(Chars(value), <<"%", "%">>)
    /\ Len(Chars(value)) > 2

\* the values the settings tab is to turn down
MalformedInput(value) ==
    \/ ~(StartsWith(Chars(value), <<"%", "%">>) /\ EndsWith(Chars(value), <<"%", "%">>))
    \/ value \in {"%%", "%%%", "%%%%"}

\* C11: a submitted flag value that does not both start and end with "%%",
\* or that is "%%", "%%%" or "%%%%", leaves the stored flag at its default;
\* after any sequence of edits both stored flags start and end with "%%"
\* and are longer than the bare delimiter.
C11_FlagValidation ==
    /\ \A i \in 1..Len(editLog) :
           MalformedInput(editLog[i].value)
               => editLog[i].stored = DEFAULT_SETTINGS[editLog[i].field]
    /\ WellFormedFlag(settings.waypointFlag)
    /\ WellFormedFlag(settings.landmarkFlag)

\* "hello" was turned down after a well-formed flag had been stored
C11_Witness ==
    /\ Len(editLog) = 2
    /\ editLog[1].value = "%%a%%" /\ editLog[1].stored = "%%a%%"
    /\ editLog[2].field = editLog[1].field
    /\ editLog[2].value = "hello"
    /\ settings[editLog[2].field] = DEFAULT_SETTINGS[editLog[2].field]

----------------------------------------------------------------------------
(* Claims on one updateWaypoint run (SpecUpdate)                           *)

Least(S) == CHOOSE i \in S : \A j \in S : i <= j

\* the line of a note at which a run of the kind starts: the first that
\* holds the flag or the begin delimiter
StartLines(lines, flagType) ==
    LinesWith(lines, GetWaypointFlag(flagType))
        \cup LinesWith(lines, GetWaypointBounds(flagType)[1])

\* the lines a run has put between the kept head and the kept tail of the note
WrittenBlock(r) ==
    LET b == FindBounds(r.before, r.flagType)
        last == IF b.waypointEnd # 0 THEN b.waypointEnd ELSE b.waypointStart
    IN  SubSeq(r.after, b.waypointStart, Len(r.after) - (Len(r.before) - last))

AllQuoted(block) == \A i \in 1..Len(block) : block[i] # <<>> /\ Head(block[i]) = ">"

\* C12 as stated: when the first line holding the flag starts with ">", every
\* line of the block written by updateWaypoint starts with ">".
C12_FlagLineCallout ==
    \A k \in 1..Len(updLog) :
        LET r == updLog[k]
            flagged == LinesWith(r.before, GetWaypointFlag(r.flagType))
        IN  (/\ r.wrote
             /\ flagged # {}
             /\ StartsWith(Trim(r.before[Least(flagged)]), <<">">>))
                => AllQuoted(WrittenBlock(r))

\* C12: when the line at which the run starts (the first holding the flag or
\* the begin delimiter) starts with ">", every line of the block written
\* starts with ">": the type label put first when that line holds the flag,
\* the begin delimiter, the table lines, the blank lines, the end delimiter.
C12_CalloutPreserved ==
    \A k \in 1..Len(updLog) :
        LET r == updLog[k]
            starts == StartLines(r.before, r.flagType)
            block == WrittenBlock(r)
            bounds == GetWaypointBounds(r.flagType)
            label == IF r.flagType = "landmark" THEN "[!landmark]" ELSE "[!waypoint]"
        IN  (/\ r.wrote
             /\ starts # {}
             /\ StartsWith(Trim(r.before[Least(starts)]), <<">">>))
                => /\ AllQuoted(block)
                   /\ block[Len(block)] = <<">", bounds[2]>>
                   /\ block[Len(block) - 1] = <<">">>
                   /\ IF Least(starts) \in LinesWith(r.before, GetWaypointFlag(r.flagType))
                      THEN block[1] = <<">", label>> /\ block[2] = <<">", bounds[1]>>
                      ELSE block[1] = <<">", bounds[1]>>

\* a first generation from a callout flag line that wrote a rendered table
C12_Witness ==
    \E k \in 1..Len(updLog) :
        LET r == updLog[k]
            starts == StartLines(r.before, r.flagType)
        IN  /\ r.wrote
            /\ starts # {}
            /\ r.before[Least(starts)] = <<">", " ", GetWaypointFlag(r.flagType)>>
            /\ Len(WrittenBlock(r)) >= 8
            /\ \E i \in 1..Len(WrittenBlock(r)) : IsRow(Tail(WrittenBlock(r)[i]))

----------------------------------------------------------------------------
(* Claims on propagation (Spec)                                            *)

\* C13: once a create, delete or rename has been handled, updateWaypoint
\* has been called for every index block, of either kind, that the folder
\* notes found by the walk on the chains of the affected folders hold; a
\* Landmark block next to a Waypoint block in one note is among them.
C13_EveryIndexRegenerated ==
    (Quiescent /\ lastEvent.kind \in {"create", "delete", "rename"})
        => \A F \in lastEvent.parents : \A G \in Chain(F) :
               LET n == LocateFolderNote(G)
               IN  IsFile(n) =>
                       \A k \in WaypointType :
                           LinesWith(text[n], GetWaypointBounds(k)[1]) # {}
                               => <<n, k>> \in uwCalled

----------------------------------------------------------------------------
(* Claims on successive updateWaypoint runs (SpecUpdate)                   *)

\* a note that holds one flag line of the kind and no delimiter of the kind
StartsWithOneFlag(lines, flagType) ==
    /\ Cardinality(LinesWith(lines, GetWaypointFlag(flagType))) = 1
    /\ LinesWith(lines, GetWaypointBounds(flagType)[1]) = {}
    /\ LinesWith(lines, GetWaypointBounds(flagType)[2]) = {}

\* C14: a folder note that started with one flag of kind K, plain or on a
\* ">" line, holds at most one begin delimiter line and at most one end
\* delimiter line of kind K after any sequence of updateWaypoint runs.
C14_SingleBlock ==
    \A K \in WaypointType :
        (updLog # <<>> /\ StartsWithOneFlag(updLog[1].before, K))
            => \A k \in 1..Len(updLog) :
                   /\ Cardinality(LinesWith(updLog[k].after,
                                            GetWaypointBounds(K)[1])) <= 1
                   /\ Cardinality(LinesWith(updLog[k].after,
                                            GetWaypointBounds(K)[2])) <= 1

\* the lines after the start line that are the end delimiter of the kind
EndLines(lines, flagType, start) ==
    {i \in (start + 1)..Len(lines) :
        Trim(lines[i]) = <<GetWaypointBounds(flagType)[2]>>}

\* C20: a run that writes replaces the lines from the start line (the first
\* holding the flag or the begin delimiter) to the end line (the first end
\* delimiter line after it; the start line when there is none) by one block,
\* and the lines before the start and after the end are kept as they were,
\* in the same order; a run that finds no start line leaves the note as it is.
C20_Frame ==
    \A k \in 1..Len(updLog) :
        LET r == updLog[k]
            starts == StartLines(r.before, r.flagType)
            start == Least(starts)
            ends == EndLines(r.before, r.flagType, start)
            last == IF ends = {} THEN start ELSE Least(ends)
            tail == Len(r.before) - last
            block == SubSeq(r.after, start, Len(r.after) - tail)
        IN  IF r.threw \/ starts = {}
            THEN ~r.wrote /\ r.after = r.before
            ELSE /\ r.wrote
                 /\ Len(r.after) >= start + tail
                 /\ SubSeq(r.after, 1, start - 1) = SubSeq(r.before, 1, start - 1)
                 /\ SubSeq(r.after, Len(r.after) - tail + 1, Len(r.after))
                        = SubSeq(r.before, last + 1, Len(r.before))
                 /\ Cardinality(LinesWith(block, GetWaypointBounds(r.flagType)[1])) = 1
                 /\ LinesWith(block, GetWaypointBounds(r.flagType)[2]) = {Len(block)}

\* a run has replaced a stale block, from its begin delimiter to its end
\* delimiter, in a note that goes on after the block, and another run has
\* replaced a start line that has lines before it
C20_Witness ==
    /\ \E k \in 1..Len(updLog) :
           LET r == updLog[k]
               starts == StartLines(r.before, r.flagType)
           IN  /\ r.wrote
               /\ EndLines(r.before, r.flagType, Least(starts)) # {}
               /\ Least(EndLines(r.before, r.flagType, Least(starts))) < Len(r.before)
               /\ r.after # r.before
    /\ \E k \in 1..Len(updLog) :
           /\ updLog[k].wrote
           /\ Least(StartLines(updLog[k].before, updLog[k].flagType)) > 1

\* C24: when the folder to render matches an ignore pattern the renderer
\* returns null, and no run of updateWaypoint puts a line made of that null
\* into the note in place of a table.
C24_NoPlaceholder ==
    IgnorePath(Parent(NoteA)) = "true"
        => \A k \in 1..Len(updLog) :
               \A i \in 1..Len(updLog[k].after) :
                   "null" \notin Range(updLog[k].after[i])

----------------------------------------------------------------------------
(* SpecFeedback: the user saves one note of any content once, the folder   *)
(* note A/A.md or the plain note A/x.md, and the plugin reacts             *)

Saved == {NoteA, LeafA}

FeedbackInit ==
    /\ settings = DEFAULT_SETTINGS
    /\ children = StaticVault
    /\ ctime = StaticCtime
    /\ \E file \in Saved : \E t \in NoteTexts :
           text = [f \in AllFiles |-> IF f = file THEN t ELSE << <<"prose">> >>]
    /\ renderOut = NoRender
    /\ updLog = <<>>
    /\ EngineIdle

FeedbackNext ==
    \/ \E file \in Saved : nEvents = 0 /\ OnModify(file, text[file])
    \/ \E t \in BagToSet(tasks) : DetectFlagsRead(t)
    \/ \E t \in BagToSet(tasks) : UpdateWaypointRead(t)
    \/ \E t \in BagToSet(tasks) : WriteNote(t)
    \/ \E t \in BagToSet(tasks) : PrintError(t)
    \/ \E t \in BagToSet(tasks) : UpdateParentPoint(t)

SpecFeedback == FeedbackInit /\ [][FeedbackNext]_vars

\* the kinds whose flag a note holds
FlagKinds(lines) ==
    {k \in WaypointType : LinesWith(lines, GetWaypointFlag(k)) # {}}

\* C15: after the user saves a folder note that holds the flag of one kind,
\* on one line or on several, before or after a block, the plugin writes the
\* note once: the "modify" raised by its own write leads to no further write.
C15_FeedbackQuiescence ==
    \A K \in WaypointType :
        (lastEvent.kind = "modify" /\ lastEvent.file = NoteA
         /\ FlagKinds(textAtEvent[NoteA]) = {K})
            => writes[NoteA] <= 1

\* C19: after the user saves a note that is not a folder note, outside
\* the root folder, with the flag of one kind K, the plugin writes the note
\* once: the first line holding the flag is replaced by the error comment,
\* every other line is unchanged, and no table is generated.
C19_ErrorInPlace ==
    \A K \in WaypointType :
        (/\ lastEvent.kind = "modify" /\ lastEvent.file = LeafA
         /\ FlagKinds(textAtEvent[LeafA]) = {K}
         /\ writes[LeafA] >= 1)
            => /\ writes[LeafA] = 1
               /\ text[LeafA] =
                      [textAtEvent[LeafA] EXCEPT
                          ![Least(LinesWith(textAtEvent[LeafA], GetWaypointFlag(K)))]
                              = ErrorLine(LeafA, K)]
               /\ \A k \in WaypointType : <<LeafA, k>> \notin uwCalled

----------------------------------------------------------------------------
(* Claims on the executions in flight (Spec)                               *)

\* the updateWaypoint executions on a note that have read it and not yet
\* written it
ReadNotWritten(file) ==
    {t \in BagToSet(tasks) :
        t.op = "updateWaypoint" /\ t.file = file /\ t.pc = "write"}

\* C16: no two updateWaypoint executions on one note overlap: while one is
\* between its read of the note and its write, no other has read the note.
C16_NoOverlappingUpdates ==
    \A file \in AllFiles :
        \A t1, t2 \in ReadNotWritten(file) :
            t1 = t2 /\ CopiesIn(t1, tasks) = 1

----------------------------------------------------------------------------
(* SpecPending: create, delete and rename events that may arrive while the *)
(* propagation of an earlier pass is still in flight                       *)

PendingNext ==
    \/ \E file \in AllFiles : OnCreate(file)
    \/ \E file \in AllFiles : OnDelete(file)
    \/ \E old, file \in AllFiles : OnRename(old, file)
    \/ Tick
    \/ UpdateChangedFolders
    \/ \E t \in BagToSet(tasks) : DetectFlagsRead(t)
    \/ \E t \in BagToSet(tasks) : UpdateWaypointRead(t)
    \/ \E t \in BagToSet(tasks) : WriteNote(t)
    \/ \E t \in BagToSet(tasks) : UpdateParentPoint(t)

PendingInit == Init /\ settings = DEFAULT_SETTINGS

SpecPending == PendingInit /\ [][PendingNext]_vars

\* the folders handed to updateParentPoint(folder, true) by the last pass
PassedFolders == {t.file : t \in BagToSet(passLog.calls)}

\* C17: a folder a handler has added to foldersWithChanges stays in the set,
\* with a pass scheduled, until a pass hands it to updateParentPoint(folder,
\* true); this holds too for a folder added while the propagation started by
\* an earlier pass is still in flight.
C17_NoLostPendingChanges ==
    /\ accumulated \subseteq foldersWithChanges
    /\ accumulated # {} => timer >= 0
    /\ passLog.ran => passLog.accumulated \subseteq PassedFolders

\* a folder was added while the propagation of the first pass was in
\* flight, and the second pass has handed it to updateParentPoint
C17_Witness ==
    /\ nEvents = 2
    /\ lastEvent.inFlight
    /\ lastEvent.kind \in {"create", "delete", "rename"}
    /\ accumulated = {}
    /\ passLog.ran
    /\ lastEvent.parents \subseteq PassedFolders


----------------------------------------------------------------------------
(* SpecWalk: one call of updateParentPoint from any node of the vault,     *)
(* the folder notes holding a Waypoint block, a Landmark block or prose    *)

WalkTexts == {StaleBlock, StaleLandmark, << <<"prose">> >>}

WalkInit ==
    /\ settings = DEFAULT_SETTINGS
    /\ children = StaticVault
    /\ ctime = StaticCtime
    /\ \E a, b, c \in WalkTexts :
           text = [f \in AllFiles |->
                      IF f = NoteA THEN a ELSE IF f = NoteB THEN b
                      ELSE IF f = NoteC THEN c ELSE << <<"prose">> >>]
    /\ renderOut = NoRender
    /\ updLog = <<>>
    /\ EngineIdle

\* updateParentPoint(node, includeCurrentNode) is called
CallUpdateParentPoint(node, includeCurrentNode) ==
    /\ nEvents = 0
    /\ Exists(node)
    /\ includeCurrentNode => IsFolder(node)
    /\ nEvents' = 1
    /\ lastEvent' = [kind |-> "walk", file |-> node,
                     parents |-> {IF includeCurrentNode THEN node ELSE Parent(node)},
                     inFlight |-> FALSE]
    /\ tasks' = tasks (+) SetToBag({Task("updateParentPoint",
                     IF includeCurrentNode THEN node ELSE Parent(node),
                     "none", "locate", NoRender, NoData, "none")})
    /\ UNCHANGED <<settings, vaultVars, foldersWithChanges, timer, checkVars,
                   uwCalled, sinceCall, sinceEvent, burstCalls, callBurstRuns,
                   eventBurstRuns, accumulated, passLog, writeVars>>

WalkSteps ==
    \/ \E t \in BagToSet(tasks) : DetectFlagsRead(t)
    \/ \E t \in BagToSet(tasks) : UpdateWaypointRead(t)
    \/ \E t \in BagToSet(tasks) : WriteNote(t)
    \/ \E t \in BagToSet(tasks) : UpdateParentPoint(t)

WalkNext ==
    \/ \E node \in AllNodes, includeCurrentNode \in BOOLEAN :
           CallUpdateParentPoint(node, includeCurrentNode)
    \/ WalkSteps

\* a step of a pending execution is enabled exactly when an execution is
\* pending (every operation kept in tasks has its step in WalkSteps, and a
\* walk writes to a note less than MaxWrites times)
WalkStepEnabled == tasks # EmptyBag

\* the event loop runs every pending read, write and turn of the walk in the
\* end: WF_vars(WalkSteps), with ENABLED <<WalkSteps>>_vars written as the
\* state predicate it is equivalent to
WalkFairness == []<>(~WalkStepEnabled) \/ []<><<WalkSteps>>_vars

SpecWalk == WalkInit /\ [][WalkNext]_vars /\ WalkFairness

Walks == {t \in BagToSet(tasks) : t.op = "updateParentPoint"}

\* every pending execution can take its step
PendingCanStep ==
    \A t \in BagToSet(tasks) :
        \/ t.op \in {"updateParentPoint", "detectFlags"}
        \/ t.op = "updateWaypoint" /\ t.pc = "read"
        \/ t.op = "updateWaypoint" /\ t.pc = "write" /\ writes[t.file] < MaxWrites

\* C18: a call of updateParentPoint terminates; the walk goes on strictly
\* above the folder of each note it has updated, so it updates no note
\* twice; and a walk that meets no marker up to the root writes nothing.
C18_WalkTerminates ==
    /\ []PendingCanStep
    /\ [](\A t \in Walks :
              /\ \A i, j \in 1..Len(t.data) : t.data[i] = t.data[j] => i = j
              /\ \A i \in 1..Len(t.data) :
                     /\ t.file # Parent(t.data[i])
                     /\ t.file = Null \/ t.file \in Chain(Parent(t.data[i])))
    /\ []((lastEvent.kind = "walk" /\ uwCalled = {}) => writes = NoWrites)
    /\ [](lastEvent.kind = "walk" => <>(Walks = {}))

\* a walk from the innermost folder has updated the three folder notes, in
\* order, and has ended above the root
C18_Witness ==
    /\ lastEvent.kind = "walk"
    /\ \E t \in Walks : t.file = Null /\ t.data = <<NoteC, NoteB, NoteA>>

----------------------------------------------------------------------------
(* SpecInvoke: updateWaypoint or printError is called once on a note of    *)
(* any content, the folder note A/A.md or the plain note A/x.md            *)

\* the name under which a call is kept in lastEvent
CallKind(op, flagType) ==
    IF op = "updateWaypoint"
    THEN (IF flagType = "waypoint" THEN "updateWaypoint(waypoint)"
          ELSE "updateWaypoint(landmark)")
    ELSE (IF flagType = "waypoint" THEN "printError(waypoint)"
          ELSE "printError(landmark)")

\* updateWaypoint(file, flagType), called on its own
CallUpdate(file, flagType) ==
    /\ nEvents = 0
    /\ nEvents' = 1
    /\ lastEvent' = [kind |-> CallKind("updateWaypoint", flagType), file |-> file,
                     parents |-> {}, inFlight |-> FALSE]
    /\ tasks' = tasks (+) CallUpdateWaypoint(file, flagType, "none")
    /\ uwCalled' = uwCalled \cup {<<file, flagType>>}
    /\ UNCHANGED <<settings, vaultVars, foldersWithChanges, timer, checkVars,
                   sinceCall, sinceEvent, burstCalls, callBurstRuns,
                   eventBurstRuns, accumulated, passLog, writeVars>>

\* printError(file, error, flagType), called on its own
CallPrintError(file, flagType) ==
    /\ nEvents = 0
    /\ nEvents' = 1
    /\ lastEvent' = [kind |-> CallKind("printError", flagType), file |-> file,
                     parents |-> {}, inFlight |-> FALSE]
    /\ tasks' = tasks (+) SetToBag({Task("printError", file, flagType, "read",
                                         NoRender, ErrorLine(file, flagType),
                                         "none")})
    /\ UNCHANGED <<settings, vaultVars, foldersWithChanges, timer, checkVars,
                   uwCalled, sinceCall, sinceEvent, burstCalls, callBurstRuns,
                   eventBurstRuns, accumulated, passLog, writeVars>>

InvokeNext ==
    \/ \E file \in Saved, flagType \in WaypointType : CallUpdate(file, flagType)
    \/ \E file \in Saved, flagType \in WaypointType : CallPrintError(file, flagType)
    \/ \E t \in BagToSet(tasks) : DetectFlagsRead(t)
    \/ \E t \in BagToSet(tasks) : UpdateWaypointRead(t)
    \/ \E t \in BagToSet(tasks) : WriteNote(t)
    \/ \E t \in BagToSet(tasks) : PrintError(t)
    \/ \E t \in BagToSet(tasks) : UpdateParentPoint(t)

SpecInvoke == FeedbackInit /\ [][InvokeNext]_vars

\* C21: updateWaypoint called on a note that holds neither the flag nor the
\* begin delimiter of its kind, and printError called on a note that does not
\* hold the flag of its kind, write nothing: the note keeps its text, and
\* nothing is left pending.
C21_AbortLeavesNote ==
    \A K \in WaypointType :
        LET file == lastEvent.file
        IN  /\ (/\ lastEvent.kind = CallKind("updateWaypoint", K)
                /\ StartLines(textAtEvent[file], K) = {})
                   => /\ text = textAtEvent
                      /\ writes = NoWrites
                      /\ \A t \in BagToSet(tasks) : t.pc = "read"
            /\ (/\ lastEvent.kind = CallKind("printError", K)
                /\ LinesWith(textAtEvent[file], GetWaypointFlag(K)) = {})
                   => /\ text = textAtEvent
                      /\ writes = NoWrites
                      /\ \A t \in BagToSet(tasks) : t.pc = "read"

\* printError for the Landmark kind has returned from a note that holds the
\* Waypoint flag only
C21_Witness ==
    /\ tasks = EmptyBag
    /\ lastEvent.kind = CallKind("printError", "landmark")
    /\ LinesWith(textAtEvent[lastEvent.file], GetWaypointFlag("waypoint")) # {}
    /\ StartLines(textAtEvent[lastEvent.file], "landmark") = {}

----------------------------------------------------------------------------
(* SpecStopScan: the user sets "Stop Scan at Folder Notes" in the settings *)
(* tab, then updateParentPoint is called once                              *)

\* the toggle's onChange: the value is stored and the settings are saved
SetStopScanAtFolderNotes(value) ==
    /\ nEvents = 0
    /\ Len(editLog) < MaxEdits
    /\ settings' = [settings EXCEPT !.stopScanAtFolderNotes = value]
    /\ editLog' = Append(editLog, [field |-> "stopScanAtFolderNotes",
                                   value |-> value, stored |-> value])
    /\ UNCHANGED <<vaultVars, engineVars, renderOut, updLog, histVars>>

StopScanNext ==
    \/ \E value \in BOOLEAN : SetStopScanAtFolderNotes(value)
    \/ \E node \in AllNodes, includeCurrentNode \in BOOLEAN :
           CallUpdateParentPoint(node, includeCurrentNode)
    \/ WalkSteps

SpecStopScan == WalkInit /\ [][StopScanNext]_vars

\* the folder notes without a marker on the way up from the folder the
\* walk has started at
PlainFolderNotes ==
    {n \in AllFiles :
        /\ \E start \in lastEvent.parents : Parent(n) \in Chain(start)
        /\ LocateFolderNote(Parent(n)) = n
        /\ MarkerKind(text[n]) = "none"}

\* C22: with stopScanAtFolderNotes enabled the walk stops at the first folder
\* note it meets, marker or not: no note above a folder note without a
\* marker is regenerated.
C22_StopScan ==
    (lastEvent.kind = "walk" /\ settings.stopScanAtFolderNotes)
        => \A t \in Walks : \A i \in 1..Len(t.data) :
               \A n \in PlainFolderNotes :
                   Parent(t.data[i]) \notin Chain(Parent(Parent(n)))

----------------------------------------------------------------------------
(* SpecJump: the "Go to parent Waypoint" command is run once on an active  *)
(* file, with either folder note name and any markers in the folder notes  *)

JumpInit ==
    /\ \E n \in {"", "index"} :
           settings = [DEFAULT_SETTINGS EXCEPT !.folderNoteName = n]
    /\ children = StaticVault
    /\ ctime = StaticCtime
    /\ \E a, b, c, x \in WalkTexts :
           text = [f \in AllFiles |->
                      IF f = NoteA THEN a ELSE IF f = NoteB THEN b
                      ELSE IF f = NoteC THEN c ELSE IF f = IndexA THEN x
                      ELSE << <<"prose">> >>]
    /\ renderOut = NoRender
    /\ updLog = <<>>
    /\ EngineIdle

\* the command's callback up to the first turn of locateParentPoint(curFile,
\* false): the search starts at the folder of the active file
GoToParentWaypoint(curFile) ==
    /\ nEvents = 0
    /\ Exists(curFile)
    /\ nEvents' = 1
    /\ lastEvent' = [kind |-> "jump", file |-> curFile, parents |-> {},
                     inFlight |-> FALSE]
    /\ tasks' = tasks (+) SetToBag({Task("goToParentWaypoint", Parent(curFile),
                                         "none", "locate", NoRender, NoData,
                                         "none")})
    /\ UNCHANGED <<settings, vaultVars, foldersWithChanges, timer, checkVars,
                   uwCalled, sinceCall, sinceEvent, burstCalls, callBurstRuns,
                   eventBurstRuns, accumulated, passLog, writeVars>>

\* one turn of the loop of locateParentPoint for the command: a folder note
\* with a marker, or null above the root, is handed to openFile
LocateParentPoint(t) ==
    /\ t.op = "goToParentWaypoint" /\ t.pc = "locate"
    /\ LET folder == t.file
           folderNote == IF folder = Null THEN Null ELSE LocateFolderNote(folder)
           kind == IF IsFile(folderNote) THEN MarkerKind(text[folderNote]) ELSE "none"
       IN  tasks' = Done(t) (+) SetToBag({
               IF folder = Null
               THEN [t EXCEPT !.pc = "openFile", !.data = <<Null>>]
               ELSE IF kind # "none"
               THEN [t EXCEPT !.pc = "openFile", !.flagType = kind,
                              !.data = <<folderNote>>]
               ELSE [t EXCEPT !.file = Parent(folder)]})
    /\ UNCHANGED <<settings, vaultVars, foldersWithChanges, timer, checkVars,
                   histVars>>

\* workspace.activeLeaf.openFile(parentPoint): the note becomes the active file
OpenFile(t) ==
    /\ t.op = "goToParentWaypoint" /\ t.pc = "openFile"
    /\ tasks' = Done(t)
    /\ lastEvent' = [kind |-> "opened", file |-> t.data[1],
                     parents |-> {lastEvent.file}, inFlight |-> FALSE]
    /\ UNCHANGED <<settings, vaultVars, foldersWithChanges, timer, checkVars,
                   nEvents, uwCalled, sinceCall, sinceEvent, burstCalls,
                   callBurstRuns, eventBurstRuns, accumulated, passLog, writeVars>>

JumpNext ==
    \/ \E curFile \in AllFiles : GoToParentWaypoint(curFile)
    \/ \E t \in BagToSet(tasks) : LocateParentPoint(t)
    \/ \E t \in BagToSet(tasks) : OpenFile(t)

SpecJump == JumpInit /\ [][JumpNext]_vars

\* the folder notes of a folder that hold a marker
MarkedFolderNotes(folder) ==
    {n \in FolderNotesOf(folder) : MarkerKind(text[n]) # "none"}

\* the folders at and above a folder whose folder note holds a marker
MarkedFolders(folder) == {f \in Chain(folder) : MarkedFolderNotes(f) # {}}

\* the nearest of them
NearestMarked(folder) ==
    CHOOSE f \in MarkedFolders(folder) :
        \A g \in MarkedFolders(folder) : g \in Chain(f)

\* C23: the command writes to no note and leaves foldersWithChanges as it
\* is, and the note it hands to openFile is the folder note, holding a marker,
\* of the nearest folder at or above the active file's folder that has one.
C23_JumpResolvesNearest ==
    /\ lastEvent.kind \in {"jump", "opened"}
           => /\ text = textAtEvent
              /\ writes = NoWrites
              /\ foldersWithChanges = {}
    /\ \A t \in BagToSet(tasks) :
           (t.op = "goToParentWaypoint" /\ t.pc = "openFile")
               => LET from == Parent(lastEvent.file)
                  IN  IF MarkedFolders(from) = {} THEN t.data = <<Null>>
                      ELSE t.data[1] \in MarkedFolderNotes(NearestMarked(from))

----------------------------------------------------------------------------
(* SpecBoth: the user saves the folder note A/A.md once, with the Waypoint *)
(* flag and the Landmark flag in it                                        *)

MaxBothWrites == 6       \* vault.modify calls on the note that follow the save

BothLines == { <<"prose">>, <<DEFAULT_SETTINGS.waypointFlag>>,
               <<DEFAULT_SETTINGS.landmarkFlag>>, <<END_WAYPOINT>> }

\* the notes that hold each flag on one line
BothTexts ==
    {t \in UNION {[1..n -> BothLines] : n \in 2..MaxLines} :
        \A flag \in {DEFAULT_SETTINGS.waypointFlag, DEFAULT_SETTINGS.landmarkFlag} :
            Cardinality({i \in 1..Len(t) : t[i] = <<flag>>}) = 1}

BothInit ==
    /\ settings = DEFAULT_SETTINGS
    /\ children = StaticVault
    /\ ctime = StaticCtime
    /\ \E t \in BothTexts :
           text = [f \in AllFiles |-> IF f = NoteA THEN t ELSE << <<"prose">> >>]
    /\ renderOut = NoRender
    /\ updLog = <<>>
    /\ EngineIdle

BothNext ==
    \/ nEvents = 0 /\ OnModify(NoteA, text[NoteA])
    \/ \E t \in BagToSet(tasks) : DetectFlagsRead(t)
    \/ \E t \in BagToSet(tasks) : UpdateWaypointRead(t)
    \/ \E t \in BagToSet(tasks) : WriteNoteUpTo(t, MaxBothWrites)
    \/ \E t \in BagToSet(tasks) : UpdateParentPoint(t)

SpecBoth == BothInit /\ [][BothNext]_vars

\* the note holds one generated block of each kind and no flag
Converged(lines) ==
    \A K \in WaypointType :
        /\ LinesWith(lines, GetWaypointFlag(K)) = {}
        /\ Cardinality(LinesWith(lines, GetWaypointBounds(K)[1])) = 1
        /\ Cardinality(LinesWith(lines, GetWaypointBounds(K)[2])) = 1
        /\ HoldsBlock(lines, K)

\* C25: once the two detectFlag executions started by the save, and every
\* execution started by their writes, have run to their end, the note holds
\* one Waypoint block, one Landmark block and no flag, whatever the order of
\* the reads and writes has been.
C25_BothConverge ==
    (lastEvent.kind = "modify" /\ tasks = EmptyBag) => Converged(text[NoteA])

============================================================================
